---------------------------- MODULE Spec2Model ----------------------------
(***************************************************************************)
(* Model of the vault program's two instruction handlers:                  *)
(*   src/src/instructions/deposit.rs   (Deposit)                           *)
(*   src/src/instructions/withdraw.rs  (Withdraw)                          *)
(*                                                                         *)
(* The ledger is a set of accounts, each with a lamport balance and an     *)
(* owning program.  One action executes one instruction to completion; a   *)
(* failing instruction aborts its transaction and leaves the ledger as it  *)
(* was.  The platform pieces the handlers call (address derivation, the    *)
(* system program's transfer, cross-program signer privileges, the         *)
(* instructions sysvar, the secp256r1 precompile and the clock) are        *)
(* modelled at their boundary:                                             *)
(*   - sha256 is collision free: the hash of a byte string is modelled by  *)
(*     the byte string itself, and OnCurve is a fixed deterministic        *)
(*     predicate standing for the ed25519 curve test;                      *)
(*   - the 32 trailing bytes of a compressed public key and a 32-byte      *)
(*     address are opaque values; every other byte string is a sequence    *)
(*     of bytes 0..255 and is decoded as the code decodes it;              *)
(*   - a secp256r1 instruction that is present in a transaction was        *)
(*     verified by the precompile: its signer signed its message;          *)
(*   - the collaborator accounts (system program, instructions sysvar)     *)
(*     passed to a handler are the genuine ones, every account passed is   *)
(*     writable and carries no data.                                       *)
(* TLC integers are 32 bits wide: the 64-bit values of the inputs are      *)
(* drawn from byte strings whose value fits, and decoded exactly.          *)
(***************************************************************************)
EXTENDS Integers, Sequences, FiniteSets, TLC

VARIABLES lamports, owner, now, last, prevDeposit, acceptedProof, deposited

\* History of the instruction sequence, recorded for the properties of
\* sequences; the handlers never read it.
history == <<prevDeposit, acceptedProof, deposited>>

vars == <<lamports, owner, now, last, prevDeposit, acceptedProof, deposited>>

(***************************************************************************)
(* Bounds of the model.                                                    *)
(***************************************************************************)
MaxNow == 1            \* the clock runs over 0..MaxNow
MaxAmount == 2         \* Deposit amounts are drawn from 0..MaxAmount
InitLamports == 2      \* initial balance of each wallet
MaxSigs == 2           \* num_signatures of the adjacent instruction: 0..MaxSigs

(***************************************************************************)
(* Program constants.                                                      *)
(***************************************************************************)
SECP256R1_COMPRESSED_PUBKEY_LENGTH == 33
U64_SIZE == 8
PUBKEY_BYTES == 32
MAX_BUMP == 255

SYSTEM_ID == "system"
OTHER_PROGRAM_ID == "other"

\* b"vault"
VAULT_LABEL == <<118, 97, 117, 108, 116>>

(***************************************************************************)
(* Byte-string decoding.                                                   *)
(***************************************************************************)
RECURSIVE UnsignedFromLe(_)
\* u64::from_le_bytes: the first byte is the least significant.
UnsignedFromLe(bytes) ==
    IF bytes = <<>> THEN 0
    ELSE bytes[1] + 256 * UnsignedFromLe(Tail(bytes))

RECURSIVE SignedFromLe(_)
\* i64::from_le_bytes: two's complement, the last byte carries the sign.
SignedFromLe(bytes) ==
    IF Len(bytes) = 1
    THEN (IF bytes[1] >= 128 THEN bytes[1] - 256 ELSE bytes[1])
    ELSE bytes[1] + 256 * SignedFromLe(Tail(bytes))

RECURSIVE ToLeBytes(_, _)
\* The n-byte little-endian two's complement encoding of v (what a client
\* writes into a payload or a signed message).
ToLeBytes(v, n) ==
    IF n = 0 THEN <<>>
    ELSE <<v % 256>> \o ToLeBytes(v \div 256, n - 1)


(***************************************************************************)
(* Keys and addresses.                                                     *)
(* A compressed P-256 public key is <<first byte, remaining 32 bytes>>;    *)
(* the remaining bytes are one opaque value.                               *)
(***************************************************************************)
K1 == <<2, 0>>
K2 == <<3, 0>>
Secp256r1Pubkeys == {K1, K2}

\* Addresses that are ed25519 points (somebody holds their private key).
Wallet1 == <<0, 1>>
Wallet2 == <<0, 2>>
Foreign == <<0, 3>>         \* a keypair account assigned to another program
Wallets == {Wallet1, Wallet2}

\* Collaborator accounts.
SystemProgramAccount == <<0, 0>>
InstructionsSysvarAccount == <<0, 9>>

NoAddress == <<>>

RECURSIVE Flatten(_)
\* The concatenation of the seeds, as fed to the hash.
Flatten(seeds) ==
    IF seeds = <<>> THEN <<>> ELSE Head(seeds) \o Flatten(Tail(seeds))

RECURSIVE SumBytes(_)
SumBytes(bytes) ==
    IF bytes = <<>> THEN 0 ELSE Head(bytes) + SumBytes(Tail(bytes))

\* Stand-in for "the hash is a point of the ed25519 curve": a fixed
\* deterministic predicate that holds for about half of the inputs.
OnCurve(hash) == SumBytes(hash) % 2 = 0

\* create_program_address(seeds, program id): the hash of the seeds, or
\* NoAddress when the hash is on the curve.
CreateProgramAddress(seeds) ==
    LET hash == Flatten(seeds)
    IN IF OnCurve(hash) THEN NoAddress ELSE hash

RECURSIVE FindFrom(_, _)
FindFrom(seeds, bump) ==
    IF CreateProgramAddress(Append(seeds, <<bump>>)) # NoAddress
    THEN <<CreateProgramAddress(Append(seeds, <<bump>>)), bump>>
    ELSE IF bump = 0 THEN <<NoAddress, 0>>
    ELSE FindFrom(seeds, bump - 1)

\* (mutant) No search: only the first bump is tried.
FindProgramAddressFirstBump(seeds) ==
    <<CreateProgramAddress(Append(seeds, <<MAX_BUMP>>)), MAX_BUMP>>

\* find_program_address(seeds, program id): tries the bumps 255, 254, ...
\* and returns the first address off the curve with its bump.
FindProgramAddress(seeds) == FindFrom(seeds, MAX_BUMP)

\* Seeds of Deposit::process: [b"vault", pubkey[..1], pubkey[1..33]].
DepositSeeds(pubkey) ==
    <<VAULT_LABEL, SubSeq(pubkey, 1, 1), SubSeq(pubkey, 2, Len(pubkey))>>

\* Seeds of Withdraw::process: [b"vault", signer[..1], signer[1..], bump].
WithdrawSeeds(signer, bump) ==
    <<VAULT_LABEL, SubSeq(signer, 1, 1), SubSeq(signer, 2, Len(signer)), bump>>

\* Bumps a Withdraw payload is drawn from (below the largest one).
BumpSamples == {MAX_BUMP - 2, MAX_BUMP - 1, MAX_BUMP}

\* The vault addresses the model tracks: every address the sample keys
\* derive with a sample bump.
VaultAddresses ==
    {CreateProgramAddress(WithdrawSeeds(k, <<b>>)) :
        k \in Secp256r1Pubkeys, b \in BumpSamples} \ {NoAddress}

\* The accounts of the ledger.
Accounts == Wallets \cup {Foreign} \cup VaultAddresses

\* Only an address with a private key can sign a transaction.
CanSign(key) == key \in Wallets \cup {Foreign}

\* AccountInfo values a transaction can pass: key and signer flag (the
\* balance and the owner are read from the ledger).
AccountInfos ==
    {i \in [key : Accounts, is_signer : BOOLEAN] : i.is_signer => CanSign(i.key)}

SystemProgramInfo == [key |-> SystemProgramAccount, is_signer |-> FALSE]
InstructionsInfo == [key |-> InstructionsSysvarAccount, is_signer |-> FALSE]

(***************************************************************************)
(* Results.                                                                *)
(***************************************************************************)
Ok == "Ok"
NotEnoughAccountKeys == "NotEnoughAccountKeys"
InvalidAccountOwner == "InvalidAccountOwner"
InvalidAccountData == "InvalidAccountData"
InvalidInstructionData == "InvalidInstructionData"
IncorrectProgramId == "IncorrectProgramId"
\* Failures raised by the platform during the cross-program transfer.
BadSeeds == "BadSeeds"
PrivilegeEscalation == "PrivilegeEscalation"
InsufficientFunds == "InsufficientFunds"
ExternalAccountLamportSpend == "ExternalAccountLamportSpend"
\* A Rust panic: the program aborts.
Panic == "Panic"

(***************************************************************************)
(* The system program's Transfer, invoked across programs.                 *)
(* `signers` is the list of seed lists passed to invoke_signed (empty for  *)
(* invoke).  The platform derives one address per seed list; `from` must   *)
(* be a signer of the calling instruction or one of the derived addresses. *)
(* The debit and the credit are applied one after the other, so that a     *)
(* transfer from an account to itself leaves its balance as it was.        *)
(***************************************************************************)
SignerAddresses(signers) ==
    {CreateProgramAddress(signers[i]) : i \in 1..Len(signers)}

\* (mutant) The debit is not checked against the balance.
TransferInvokeSignedUnfunded(from, to, amount, signers) ==
    IF NoAddress \in SignerAddresses(signers)
    THEN [err |-> BadSeeds, lamports |-> lamports]
    ELSE IF ~(from.is_signer \/ from.key \in SignerAddresses(signers))
    THEN [err |-> PrivilegeEscalation, lamports |-> lamports]
    ELSE IF owner[from.key] # SYSTEM_ID /\ amount > 0
    THEN [err |-> ExternalAccountLamportSpend, lamports |-> lamports]
    ELSE LET debited == [lamports EXCEPT ![from.key] = @ - amount]
         IN [err |-> Ok,
             lamports |-> [debited EXCEPT ![to.key] = @ + amount]]

\* (mutant) The credit goes to the debited account.
TransferInvokeSignedToSender(from, to, amount, signers) ==
    IF NoAddress \in SignerAddresses(signers)
    THEN [err |-> BadSeeds, lamports |-> lamports]
    ELSE IF ~(from.is_signer \/ from.key \in SignerAddresses(signers))
    THEN [err |-> PrivilegeEscalation, lamports |-> lamports]
    ELSE IF amount > lamports[from.key]
    THEN [err |-> InsufficientFunds, lamports |-> lamports]
    ELSE IF owner[from.key] # SYSTEM_ID /\ amount > 0
    THEN [err |-> ExternalAccountLamportSpend, lamports |-> lamports]
    ELSE [err |-> Ok, lamports |-> lamports]

TransferInvokeSigned(from, to, amount, signers) ==
    IF NoAddress \in SignerAddresses(signers)
    THEN [err |-> BadSeeds, lamports |-> lamports]
    ELSE IF ~(from.is_signer \/ from.key \in SignerAddresses(signers))
    THEN [err |-> PrivilegeEscalation, lamports |-> lamports]
    ELSE IF amount > lamports[from.key]
    THEN [err |-> InsufficientFunds, lamports |-> lamports]
    ELSE IF owner[from.key] # SYSTEM_ID /\ amount > 0
    THEN [err |-> ExternalAccountLamportSpend, lamports |-> lamports]
    ELSE LET debited == [lamports EXCEPT ![from.key] = @ - amount]
         IN [err |-> Ok,
             lamports |-> [debited EXCEPT ![to.key] = @ + amount]]

(***************************************************************************)
(* Instruction payloads.  A Deposit payload is a sequence of cells: the    *)
(* first byte of the key, its remaining 32 bytes as one cell, then single  *)
(* bytes.  ByteLen is the payload's length in bytes.                       *)
(***************************************************************************)
ByteLen(data) ==
    IF Len(data) >= 2 THEN Len(data) + (PUBKEY_BYTES - 1) ELSE Len(data)

\* Cell index of byte offset `off` for off >= 33, the end of the key.
CellAt(off) == off - (PUBKEY_BYTES - 1)

(***************************************************************************)
(* deposit.rs                                                              *)
(***************************************************************************)
\* (mutant) The vault's balance is not checked.
DepositAccountsTryFromNoBalance(accounts) ==
    IF Len(accounts) # 3 THEN NotEnoughAccountKeys
    ELSE LET payer == accounts[1]
             vault == accounts[2]
         IN IF ~payer.is_signer THEN InvalidAccountOwner
            ELSE IF owner[vault.key] # SYSTEM_ID THEN InvalidAccountOwner
            ELSE Ok

DepositAccountsTryFrom(accounts) ==
    IF Len(accounts) # 3 THEN NotEnoughAccountKeys
    ELSE LET payer == accounts[1]
             vault == accounts[2]
         IN IF ~payer.is_signer THEN InvalidAccountOwner
            ELSE IF owner[vault.key] # SYSTEM_ID THEN InvalidAccountOwner
            ELSE IF lamports[vault.key] # 0 THEN InvalidAccountData
            ELSE Ok

\* (mutant) A zero amount is not rejected.
DepositInstructionDataTryFromZero(data) ==
    IF ByteLen(data) # SECP256R1_COMPRESSED_PUBKEY_LENGTH + U64_SIZE
    THEN [err |-> InvalidInstructionData, pubkey |-> <<>>, amount |-> 0]
    ELSE [err |-> Ok,
          pubkey |-> SubSeq(data, 1, CellAt(SECP256R1_COMPRESSED_PUBKEY_LENGTH)),
          amount |-> UnsignedFromLe(
              SubSeq(data, CellAt(SECP256R1_COMPRESSED_PUBKEY_LENGTH) + 1,
                     CellAt(SECP256R1_COMPRESSED_PUBKEY_LENGTH + U64_SIZE)))]

DepositInstructionDataTryFrom(data) ==
    IF ByteLen(data) # SECP256R1_COMPRESSED_PUBKEY_LENGTH + U64_SIZE
    THEN [err |-> InvalidInstructionData, pubkey |-> <<>>, amount |-> 0]
    ELSE LET pubkey == SubSeq(data, 1, CellAt(SECP256R1_COMPRESSED_PUBKEY_LENGTH))
             amount == UnsignedFromLe(
                 SubSeq(data, CellAt(SECP256R1_COMPRESSED_PUBKEY_LENGTH) + 1,
                        CellAt(SECP256R1_COMPRESSED_PUBKEY_LENGTH + U64_SIZE)))
         IN IF amount = 0
            THEN [err |-> InvalidInstructionData, pubkey |-> <<>>, amount |-> 0]
            ELSE [err |-> Ok, pubkey |-> pubkey, amount |-> amount]

\* (mutant) The payload first, then the accounts.
DepositTryFromPayloadFirst(data, accounts) ==
    IF DepositInstructionDataTryFrom(data).err # Ok
    THEN DepositInstructionDataTryFrom(data).err
    ELSE DepositAccountsTryFrom(accounts)

\* Deposit::try_from: the accounts first, then the payload.
DepositTryFrom(data, accounts) ==
    IF DepositAccountsTryFrom(accounts) # Ok
    THEN DepositAccountsTryFrom(accounts)
    ELSE DepositInstructionDataTryFrom(data).err

\* (mutant) The vault address is not checked.
DepositProcessUnchecked(data, accounts) ==
    TransferInvokeSigned(accounts[1], accounts[2],
                         DepositInstructionDataTryFrom(data).amount, <<>>)

DepositProcess(data, accounts) ==
    LET d == DepositInstructionDataTryFrom(data)
        vault_key == FindProgramAddress(DepositSeeds(d.pubkey))[1]
    IN IF vault_key # accounts[2].key
       THEN [err |-> InvalidAccountOwner, lamports |-> lamports]
       ELSE TransferInvokeSigned(accounts[1], accounts[2], d.amount, <<>>)

\* The whole handler: Deposit::try_from((data, accounts))?.process().
DepositHandler(data, accounts) ==
    IF DepositTryFrom(data, accounts) # Ok
    THEN [err |-> DepositTryFrom(data, accounts), lamports |-> lamports]
    ELSE DepositProcess(data, accounts)

(***************************************************************************)
(* The instruction following the current one in the transaction, as the    *)
(* instructions sysvar shows it: program "none" when there is none,        *)
(* "secp256r1" for the signature-verification precompile, "other" for any  *)
(* other program.  A message is [head, tail]: head holds its first 32      *)
(* bytes as one address (empty when the message is shorter), tail its      *)
(* remaining bytes.                                                        *)
(***************************************************************************)
SECP256R1 == "secp256r1"

MessageLen(message) == PUBKEY_BYTES * Len(message.head) + Len(message.tail)

\* <[u8]>::split_at(mid) for mid = 32: panics when the slice is shorter.
SplitAt32(message) ==
    IF MessageLen(message) < PUBKEY_BYTES
    THEN [panic |-> TRUE, left |-> NoAddress, right |-> <<>>]
    ELSE [panic |-> FALSE, left |-> message.head[1], right |-> message.tail]

(***************************************************************************)
(* withdraw.rs                                                             *)
(***************************************************************************)
\* (mutant) The vault's balance is not checked.
WithdrawAccountsTryFromNoBalance(accounts) ==
    IF Len(accounts) # 4 THEN NotEnoughAccountKeys
    ELSE IF owner[accounts[2].key] # SYSTEM_ID THEN InvalidAccountOwner
    ELSE Ok

WithdrawAccountsTryFrom(accounts) ==
    IF Len(accounts) # 4 THEN NotEnoughAccountKeys
    ELSE LET vault == accounts[2]
         IN IF owner[vault.key] # SYSTEM_ID THEN InvalidAccountOwner
            ELSE IF lamports[vault.key] = 0 THEN InvalidAccountData
            ELSE Ok

WithdrawInstructionDataTryFrom(data) ==
    IF Len(data) # 1
    THEN [err |-> InvalidInstructionData, bump |-> <<>>]
    ELSE [err |-> Ok, bump |-> <<data[1]>>]

\* Withdraw::try_from: the accounts first, then the payload.
WithdrawTryFrom(data, accounts) ==
    IF WithdrawAccountsTryFrom(accounts) # Ok
    THEN WithdrawAccountsTryFrom(accounts)
    ELSE WithdrawInstructionDataTryFrom(data).err

\* (mutant) Only a count of zero is rejected.
WrongSignatureCountZeroOnly(num_signatures) == num_signatures = 0

\* "Enforce that we only have one signature".

WrongSignatureCount(num_signatures) == num_signatures # 1

\* (mutant) The payer is not compared.
PayerMismatchNever(payer, field) == FALSE

\* "Check that our fee payer is correct": the payer account's key against
\* the first 32 bytes of the message.

PayerMismatch(payer, field) == payer.key # field

\* (mutant) The boundary is exclusive.
ExpiredStrict(clock, expiry) == clock >= expiry

\* (mutant) A proof is spent by its first use: an expiry that a successful
\* Withdraw was proved with counts as expired.
ExpiredOnceAccepted(clock, expiry) ==
    \/ clock > expiry
    \/ /\ acceptedProof.some
       /\ SignedFromLe(acceptedProof.ix.message.tail) = expiry

\* The expiry test: now > expiry.

Expired(clock, expiry) == clock > expiry

\* (mutant) A partial withdrawal.
WithdrawLamportsOne(vault) == 1

\* The amount of the transfer: the vault's whole balance.

WithdrawLamports(vault) == lamports[vault.key]

WithdrawProcess(data, accounts, ix) ==
    LET payer == accounts[1]
        vault == accounts[2]
        bump == WithdrawInstructionDataTryFrom(data).bump
        fail(e) == [err |-> e, lamports |-> lamports]
    IN IF ix.program = "none" THEN fail(InvalidInstructionData)
       ELSE IF ix.program # SECP256R1 THEN fail(IncorrectProgramId)
       ELSE IF WrongSignatureCount(ix.num_signatures)
       THEN fail(InvalidInstructionData)
       ELSE LET signer == ix.signer
                split == SplitAt32(ix.message)
            IN IF split.panic THEN fail(Panic)
               ELSE IF PayerMismatch(payer, split.left)
               THEN fail(InvalidAccountOwner)
               ELSE IF Len(split.right) # U64_SIZE
               THEN fail(InvalidInstructionData)
               ELSE IF Expired(now, SignedFromLe(split.right))
               THEN fail(InvalidInstructionData)
               ELSE TransferInvokeSigned(vault, payer, WithdrawLamports(vault),
                                         <<WithdrawSeeds(signer, bump)>>)

\* The whole handler: Withdraw::try_from((data, accounts))?.process().
WithdrawHandler(data, accounts, ix) ==
    IF WithdrawTryFrom(data, accounts) # Ok
    THEN [err |-> WithdrawTryFrom(data, accounts), lamports |-> lamports]
    ELSE WithdrawProcess(data, accounts, ix)

(***************************************************************************)
(* Inputs: the payloads, account lists and adjacent instructions that      *)
(* transactions are drawn from.                                            *)
(***************************************************************************)
Info(key, is_signer) == [key |-> key, is_signer |-> is_signer]

\* Two AccountInfo of one account are the same AccountInfo.
Coherent(a, b) == a.key = b.key => a = b

CoherentPairs(payers, vaults) ==
    {x \in payers \X vaults : Coherent(x[1], x[2])}

\* The canonical vault of K1.
Vault1 == FindProgramAddress(DepositSeeds(K1))[1]

\* Every account can be passed as the vault; a wallet also as a signer.
VaultInfos ==
    {Info(a, FALSE) : a \in Accounts} \cup {Info(Wallet1, TRUE)}

DepositPayerInfos ==
    {Info(Wallet1, TRUE), Info(Wallet1, FALSE), Info(Wallet2, TRUE),
     Info(Foreign, TRUE)}

WithdrawPayerInfos ==
    {Info(Wallet1, TRUE), Info(Wallet1, FALSE), Info(Wallet2, FALSE),
     Info(Vault1, FALSE)}

DepositPayloads ==
    {k \o ToLeBytes(v, U64_SIZE) : k \in Secp256r1Pubkeys, v \in 0..MaxAmount}
    \cup {<<>>,
          K1 \o ToLeBytes(1, U64_SIZE - 1),
          K1 \o ToLeBytes(1, U64_SIZE + 1)}

\* Lists of the right length, and one list too short and one too long.
DepositAccountLists ==
    {<<x[1], x[2], SystemProgramInfo>> :
        x \in CoherentPairs(DepositPayerInfos, VaultInfos)}
    \cup {<<Info(Wallet1, TRUE), Info(Vault1, FALSE)>>,
          <<Info(Wallet1, TRUE), Info(Vault1, FALSE),
            SystemProgramInfo, SystemProgramInfo>>}

WithdrawPayloads == {<<b>> : b \in BumpSamples}

MalformedWithdrawPayloads == {<<>>, <<MAX_BUMP, MAX_BUMP>>}

WithdrawAccountLists ==
    {<<x[1], x[2], InstructionsInfo, SystemProgramInfo>> :
        x \in CoherentPairs(WithdrawPayerInfos, VaultInfos)}
    \cup {<<Info(Wallet1, TRUE), Info(Vault1, FALSE), InstructionsInfo>>,
          <<Info(Wallet1, TRUE), Info(Vault1, FALSE), InstructionsInfo,
            SystemProgramInfo, SystemProgramInfo>>}

\* Expiry timestamps a proof is signed with.
ExpirySamples == (-1)..MaxNow

\* Addresses a proof names as its payer.
MessagePayers == {Wallet1, Wallet2, Vault1}

Message(payer, expiry) ==
    [head |-> <<payer>>, tail |-> ToLeBytes(expiry, U64_SIZE)]

Messages ==
    {Message(a, e) : a \in MessagePayers, e \in ExpirySamples}

\* Messages that are not 40 bytes long: 0, 8, 39 and 41 bytes.
MalformedMessages ==
    {[head |-> <<>>, tail |-> <<>>],
     [head |-> <<>>, tail |-> ToLeBytes(MaxNow, U64_SIZE)],
     [head |-> <<Wallet1>>, tail |-> ToLeBytes(MaxNow, U64_SIZE - 1)],
     [head |-> <<Wallet1>>, tail |-> ToLeBytes(MaxNow, U64_SIZE + 1)]}

NoInstruction ==
    [program |-> "none", num_signatures |-> 0, signer |-> K1,
     message |-> [head |-> <<>>, tail |-> <<>>]]

Secp256r1Ix(n, signer, message) ==
    [program |-> SECP256R1, num_signatures |-> n, signer |-> signer,
     message |-> message]

\* The instruction after the Withdraw: none, another program's, or a
\* verified secp256r1 instruction with 0..MaxSigs signatures, of which
\* signer and message are the first.
AdjacentInstructions ==
    {NoInstruction, [NoInstruction EXCEPT !.program = "other"],
     [NoInstruction EXCEPT !.program = SECP256R1]}
    \cup {Secp256r1Ix(1, k, m) : k \in Secp256r1Pubkeys, m \in Messages}
    \cup {Secp256r1Ix(1, K1, m) : m \in MalformedMessages}
    \cup {Secp256r1Ix(n, k, Message(a, MaxNow)) :
            n \in 2..MaxSigs, k \in Secp256r1Pubkeys, a \in MessagePayers}

\* A well-formed proof by K1 naming Wallet1, and no instruction at all.
FewInstructions == {NoInstruction, Secp256r1Ix(1, K1, Message(Wallet1, MaxNow))}

WithdrawInputs ==
    (WithdrawPayloads \X WithdrawAccountLists \X AdjacentInstructions)
    \cup (MalformedWithdrawPayloads \X WithdrawAccountLists \X FewInstructions)

(***************************************************************************)
(* The state machine.  One instruction executes at a time; `last` holds    *)
(* the instruction that has just executed, its result and the balances     *)
(* before it, until the result is returned to the submitter.               *)
(***************************************************************************)
NoOp(balances) ==
    [op |-> "None", data |-> <<>>, accounts |-> <<>>, ix |-> NoInstruction,
     err |-> Ok, pre |-> balances]

Idle == last.op = "None"

\* No Deposit and no proof on record.
NoDeposit ==
    [some |-> FALSE, payer |-> NoAddress, vault |-> NoAddress,
     data |-> <<>>, balance |-> 0]

NoProof ==
    [some |-> FALSE, data |-> <<>>, accounts |-> <<>>, ix |-> NoInstruction]

Init ==
    /\ lamports = [a \in Accounts |->
                      IF a \in Wallets \cup {Foreign} THEN InitLamports ELSE 0]
    /\ owner = [a \in Accounts |->
                   IF a = Foreign THEN OTHER_PROGRAM_ID ELSE SYSTEM_ID]
    /\ now = 0
    /\ last = NoOp(lamports)
    /\ prevDeposit = NoDeposit
    /\ acceptedProof = NoProof
    /\ deposited = [a \in Accounts |-> [amount |-> 0, credited |-> FALSE]]

Deposit ==
    /\ Idle
    /\ \E data \in DepositPayloads, accounts \in DepositAccountLists :
        LET r == DepositHandler(data, accounts)
        IN /\ lamports' = r.lamports
           /\ last' = [op |-> "Deposit", data |-> data, accounts |-> accounts,
                       ix |-> NoInstruction, err |-> r.err, pre |-> lamports]
    /\ UNCHANGED <<owner, now, history>>

Withdraw ==
    /\ Idle
    /\ \E in \in WithdrawInputs :
        LET data == in[1]
            accounts == in[2]
            ix == in[3]
            r == WithdrawHandler(data, accounts, ix)
        IN /\ lamports' = r.lamports
           /\ last' = [op |-> "Withdraw", data |-> data, accounts |-> accounts,
                       ix |-> ix, err |-> r.err, pre |-> lamports]
    /\ UNCHANGED <<owner, now, history>>

\* The result of the executed instruction is returned.
Return ==
    /\ ~Idle
    /\ last' = NoOp(lamports)
    /\ UNCHANGED <<lamports, owner, now, history>>

\* The clock advances.
Tick ==
    /\ Idle
    /\ now < MaxNow
    /\ now' = now + 1
    /\ UNCHANGED <<lamports, owner, last, history>>

Next == Deposit \/ Withdraw \/ Return \/ Tick

Spec == Init /\ [][Next]_vars

(***************************************************************************)
(* Sequences of instructions.  Transactions are drawn from the well-formed *)
(* Deposits of wallets that signed and the well-formed Withdraws with one  *)
(* verified proof, on every vault address; the handlers are the same.      *)
(* What a property of a sequence needs of the past is recorded when an     *)
(* instruction returns.                                                    *)
(***************************************************************************)
SeqDepositPayloads ==
    {k \o ToLeBytes(v, U64_SIZE) : k \in Secp256r1Pubkeys, v \in 1..MaxAmount}

SeqDepositAccountLists ==
    {<<Info(p, TRUE), Info(v, FALSE), SystemProgramInfo>> :
        p \in Wallets, v \in VaultAddresses}

SeqWithdrawInputs ==
    WithdrawPayloads
    \X {<<Info(p, FALSE), Info(v, FALSE), InstructionsInfo, SystemProgramInfo>> :
            p \in MessagePayers, v \in VaultAddresses}
    \X {Secp256r1Ix(1, k, m) : k \in Secp256r1Pubkeys, m \in Messages}

SeqDeposit ==
    /\ Idle
    /\ \E data \in SeqDepositPayloads, accounts \in SeqDepositAccountLists :
        LET r == DepositHandler(data, accounts)
        IN /\ lamports' = r.lamports
           /\ last' = [op |-> "Deposit", data |-> data, accounts |-> accounts,
                       ix |-> NoInstruction, err |-> r.err, pre |-> lamports]
    /\ UNCHANGED <<owner, now, history>>

SeqWithdraw ==
    /\ Idle
    /\ \E in \in SeqWithdrawInputs :
        LET r == WithdrawHandler(in[1], in[2], in[3])
        IN /\ lamports' = r.lamports
           /\ last' = [op |-> "Withdraw", data |-> in[1], accounts |-> in[2],
                       ix |-> in[3], err |-> r.err, pre |-> lamports]
    /\ UNCHANGED <<owner, now, history>>

\* The result is returned; a successful Deposit is on record until the next
\* successful instruction: its payer, vault, payload and the payer's balance
\* before it.
ReturnRound ==
    /\ ~Idle
    /\ last' = NoOp(lamports)
    /\ prevDeposit' =
           IF last.err # Ok THEN prevDeposit
           ELSE IF last.op = "Deposit"
           THEN [some |-> TRUE, payer |-> last.accounts[1].key,
                 vault |-> last.accounts[2].key, data |-> last.data,
                 balance |-> last.pre[last.accounts[1].key]]
           ELSE NoDeposit
    /\ UNCHANGED <<lamports, owner, now, acceptedProof, deposited>>

\* The result is returned; the most recent successful Withdraw is on record
\* as submitted: payload, accounts and proof.
ReturnReplay ==
    /\ ~Idle
    /\ last' = NoOp(lamports)
    /\ acceptedProof' =
           IF last.err = Ok /\ last.op = "Withdraw"
           THEN [some |-> TRUE, data |-> last.data,
                 accounts |-> last.accounts, ix |-> last.ix]
           ELSE acceptedProof
    /\ UNCHANGED <<lamports, owner, now, prevDeposit, deposited>>

\* The result is returned; on record are, for each vault, the amount of the
\* most recent successful Deposit to it, and whether a successful Withdraw
\* from another account has since credited it as its payer.
ReturnDeposits ==
    /\ ~Idle
    /\ last' = NoOp(lamports)
    /\ deposited' =
           IF last.err # Ok THEN deposited
           ELSE IF last.op = "Deposit"
           THEN [deposited EXCEPT ![last.accounts[2].key] =
                    [amount |-> DepositInstructionDataTryFrom(last.data).amount,
                     credited |-> FALSE]]
           ELSE IF /\ last.accounts[1].key \in VaultAddresses
                   /\ last.accounts[1].key # last.accounts[2].key
           THEN [deposited EXCEPT ![last.accounts[1].key].credited = TRUE]
           ELSE deposited
    /\ UNCHANGED <<lamports, owner, now, prevDeposit, acceptedProof>>

NextRound == SeqDeposit \/ SeqWithdraw \/ ReturnRound \/ Tick
NextReplay == SeqDeposit \/ SeqWithdraw \/ ReturnReplay \/ Tick
NextDeposits == SeqDeposit \/ SeqWithdraw \/ ReturnDeposits \/ Tick

SpecRound == Init /\ [][NextRound]_vars
SpecReplay == Init /\ [][NextReplay]_vars
SpecDeposits == Init /\ [][NextDeposits]_vars

(***************************************************************************)
(* Vocabulary of the properties: the instruction that has just executed.   *)
(***************************************************************************)
IsDeposit == last.op = "Deposit"
IsWithdraw == last.op = "Withdraw"
Succeeded == last.err = Ok
BalancesUnchanged == lamports = last.pre

\* The accounts in the payer and vault positions.
LastPayer == last.accounts[1]
LastVault == last.accounts[2]

\* Specification of the derivation, independent of the search the code
\* runs: an address is derived from key k with bump b when the hash of
\* "vault", k and b is off the curve; the canonical bump is the largest
\* such bump.
DerivedAddress(k, bump) == VAULT_LABEL \o k \o <<bump>>

Derives(k, bump, address) ==
    address = DerivedAddress(k, bump) /\ ~OnCurve(address)

CanonicalBump(k, bump) ==
    /\ ~OnCurve(DerivedAddress(k, bump))
    /\ \A c \in (bump + 1)..MAX_BUMP : OnCurve(DerivedAddress(k, c))

\* The sample keys' canonical bumps are sample bumps.
CanonicalVault(k, address) ==
    \E bump \in BumpSamples : CanonicalBump(k, bump) /\ Derives(k, bump, address)

\* A Deposit with three accounts whose payload is 41 bytes long: its key
\* and the value its amount bytes spell.
DepositShaped == IsDeposit /\ Len(last.accounts) = 3 /\ ByteLen(last.data) = 41
DepositKey == SubSeq(last.data, 1, 2)
DepositAmountIs(v) == SubSeq(last.data, 3, 10) = ToLeBytes(v, 8)

\* A Withdraw with four accounts, a 1-byte payload and a system-owned vault
\* account with a positive balance.
WithdrawShaped ==
    /\ IsWithdraw
    /\ Len(last.accounts) = 4
    /\ Len(last.data) = 1
    /\ owner[LastVault.key] = SYSTEM_ID
    /\ last.pre[LastVault.key] > 0

\* The adjacent instruction is a signature verification of one signature.
OneProof == last.ix.program = SECP256R1 /\ last.ix.num_signatures = 1

\* The proof's message is 40 bytes long, names `payer` and expires at e.
ProofNames(payer) ==
    /\ Len(last.ix.message.head) = 1
    /\ last.ix.message.head[1] = payer
ProofExpiresAt(e) ==
    /\ Len(last.ix.message.head) = 1
    /\ last.ix.message.tail = ToLeBytes(e, 8)

\* The proof's signer and the payload's bump derive the vault account.
ProofDerivesVault == Derives(last.ix.signer, last.data[1], LastVault.key)

ProofConditions ==
    /\ OneProof
    /\ ProofDerivesVault
    /\ ProofNames(LastPayer.key)
    /\ \E e \in ExpirySamples : ProofExpiresAt(e) /\ now <= e

(***************************************************************************)
(* C1: a well-formed Withdraw on a system-owned vault account with a       *)
(* positive balance succeeds if and only if the adjacent instruction       *)
(* verifies exactly one signature, its signer and the payload's bump       *)
(* derive the supplied vault account's address, its message names the      *)
(* supplied payer and now <= expiry.                                       *)
(* Violated: the handler never compares the derived address with the       *)
(* vault account; it leaves that to the transfer's signer check, which     *)
(* also passes when the account in the vault position signed the           *)
(* transaction itself.                                                     *)
(***************************************************************************)
C1_WithdrawSucceedsIffProof ==
    WithdrawShaped => (Succeeded <=> ProofConditions)

\* What the code does instead (for reference): the derivation may be
\* replaced by the vault account's own signature, provided the seeds are
\* valid.
C1_WithdrawSucceedsAsCoded ==
    WithdrawShaped =>
        (Succeeded <=>
            /\ OneProof
            /\ ProofNames(LastPayer.key)
            /\ \E e \in ExpirySamples : ProofExpiresAt(e) /\ now <= e
            /\ \/ ProofDerivesVault
               \/ /\ LastVault.is_signer
                  /\ ~OnCurve(VAULT_LABEL \o last.ix.signer \o last.data))

\* No vault address loses balance without a proof by the key it is
\* derived from.
C1_VaultDebitNeedsOwnerProof ==
    \A v \in VaultAddresses :
        lamports[v] < last.pre[v] =>
            /\ IsWithdraw /\ OneProof /\ LastVault.key = v
            /\ Derives(last.ix.signer, last.data[1], v)

(***************************************************************************)
(* C2 (as claimed): every successful Withdraw leaves the vault balance at  *)
(* 0 and raises the payer balance by the vault's previous balance, for     *)
(* every payer account the checks accept (the vault being the address the  *)
(* proof's signer derives).                                                *)
(***************************************************************************)
C2_WithdrawDrainsAnyPayer ==
    (IsWithdraw /\ Succeeded /\ ProofDerivesVault) =>
        /\ lamports[LastVault.key] = 0
        /\ lamports[LastPayer.key] =
               last.pre[LastPayer.key] + last.pre[LastVault.key]

(***************************************************************************)
(* C2 (amended): every successful Withdraw whose payer account is not the  *)
(* vault account itself leaves the vault balance at 0 and raises the payer *)
(* balance by exactly the vault's previous balance; when the payer account *)
(* is the vault account the balance is left as it was.                     *)
(***************************************************************************)
C2_WithdrawDrainsDistinctPayer ==
    (IsWithdraw /\ Succeeded) =>
        IF LastPayer.key # LastVault.key
        THEN /\ lamports[LastVault.key] = 0
             /\ lamports[LastPayer.key] =
                    last.pre[LastPayer.key] + last.pre[LastVault.key]
        ELSE BalancesUnchanged

C2_Witness ==
    /\ IsWithdraw /\ Succeeded
    /\ LastPayer.key # LastVault.key
    /\ last.pre[LastVault.key] = MaxAmount
    /\ lamports[LastVault.key] = 0

(***************************************************************************)
(* Deposit preconditions, read from the balances before the instruction.   *)
(***************************************************************************)
DepositAccountChecksPass ==
    /\ Len(last.accounts) = 3
    /\ LastPayer.is_signer
    /\ owner[LastVault.key] = SYSTEM_ID
    /\ last.pre[LastVault.key] = 0

(***************************************************************************)
(* C3 (as claimed): for every non-zero amount and owner key, a Deposit by  *)
(* a signer to the system-owned, empty, canonically derived vault          *)
(* succeeds, the vault then holds exactly amount and the payer amount      *)
(* less; a Deposit whose payer is not a signer fails.                      *)
(***************************************************************************)
C3_DepositSucceeds ==
    /\ (DepositShaped /\ DepositAccountChecksPass
            /\ CanonicalVault(DepositKey, LastVault.key)) =>
        \A v \in 1..MaxAmount :
            DepositAmountIs(v) =>
                /\ Succeeded
                /\ lamports[LastVault.key] = v
                /\ lamports[LastPayer.key] = last.pre[LastPayer.key] - v
    /\ (IsDeposit /\ Len(last.accounts) = 3 /\ ~LastPayer.is_signer) =>
        ~Succeeded

(***************************************************************************)
(* C3 (amended): the same, for a payer that can fund the transfer: a       *)
(* system-owned account holding at least amount.  A payer holding less     *)
(* makes the transfer, and so the Deposit, fail.                           *)
(***************************************************************************)
C3_FundedDepositSucceeds ==
    /\ (DepositShaped /\ DepositAccountChecksPass
            /\ CanonicalVault(DepositKey, LastVault.key)) =>
        \A v \in 1..MaxAmount :
            DepositAmountIs(v) =>
                IF owner[LastPayer.key] = SYSTEM_ID /\ last.pre[LastPayer.key] >= v
                THEN /\ Succeeded
                     /\ lamports[LastVault.key] = v
                     /\ lamports[LastPayer.key] = last.pre[LastPayer.key] - v
                ELSE ~Succeeded /\ BalancesUnchanged
    /\ (IsDeposit /\ Len(last.accounts) = 3 /\ ~LastPayer.is_signer) =>
        ~Succeeded

\* A successful Deposit of the largest amount to the vault of K2, whose
\* canonical bump is not the first one tried.
C3_Witness ==
    /\ DepositShaped /\ Succeeded
    /\ DepositKey = K2
    /\ DepositAmountIs(MaxAmount)
    /\ lamports[LastVault.key] = MaxAmount
    /\ ~CanonicalBump(K2, MAX_BUMP)

(***************************************************************************)
(* C4: a Deposit to a vault account whose balance is not zero is rejected  *)
(* and changes no balance; the error is InvalidAccountData (the payer      *)
(* being a signer and the vault system-owned, which are checked first).    *)
(***************************************************************************)
C4_FundedVaultRejected ==
    (IsDeposit /\ Len(last.accounts) = 3 /\ last.pre[LastVault.key] # 0) =>
        /\ ~Succeeded
        /\ BalancesUnchanged
        /\ (LastPayer.is_signer /\ owner[LastVault.key] = SYSTEM_ID) =>
               last.err = InvalidAccountData

\* An otherwise valid Deposit to a funded canonical vault, by a signer
\* that could pay for it.
C4_Witness ==
    /\ DepositShaped
    /\ LastPayer.is_signer
    /\ CanonicalVault(DepositKey, LastVault.key)
    /\ last.pre[LastVault.key] > 0
    /\ DepositAmountIs(1)
    /\ last.pre[LastPayer.key] >= 1
    /\ last.err = InvalidAccountData

(***************************************************************************)
(* C5: a Withdraw on a (system-owned) vault account whose balance is zero  *)
(* is rejected with InvalidAccountData whatever proof accompanies it, and  *)
(* changes no balance.                                                     *)
(***************************************************************************)
C5_EmptyVaultRejected ==
    (IsWithdraw /\ Len(last.accounts) = 4 /\ last.pre[LastVault.key] = 0) =>
        /\ ~Succeeded
        /\ BalancesUnchanged
        /\ owner[LastVault.key] = SYSTEM_ID => last.err = InvalidAccountData

\* An empty vault, with a proof that would pass every other check.
C5_Witness ==
    /\ IsWithdraw
    /\ Len(last.accounts) = 4
    /\ Len(last.data) = 1
    /\ last.pre[LastVault.key] = 0
    /\ ProofConditions
    /\ last.err = InvalidAccountData

(***************************************************************************)
(* C6: a Deposit whose payload decodes to amount 0 is rejected whatever    *)
(* the accounts, the key and the vault's state, and changes no balance;    *)
(* when the account checks pass the error is InvalidInstructionData.       *)
(***************************************************************************)
C6_ZeroAmountRejected ==
    (IsDeposit /\ ByteLen(last.data) = 41 /\ DepositAmountIs(0)) =>
        /\ ~Succeeded
        /\ BalancesUnchanged
        /\ DepositAccountChecksPass => last.err = InvalidInstructionData

C6_Witness ==
    /\ DepositShaped
    /\ DepositAmountIs(0)
    /\ DepositAccountChecksPass
    /\ CanonicalVault(DepositKey, LastVault.key)
    /\ last.err = InvalidInstructionData

(***************************************************************************)
(* C7: a Deposit whose vault account is not the address canonically        *)
(* derived from the payload's key is rejected and transfers nothing; with  *)
(* a signing payer, a system-owned empty account and a non-zero amount     *)
(* the error is InvalidAccountOwner.  This covers an address derived from  *)
(* the same key with a bump that is not the canonical one.                 *)
(***************************************************************************)
C7_WrongVaultAddressRejected ==
    (DepositShaped /\ ~CanonicalVault(DepositKey, LastVault.key)) =>
        /\ ~Succeeded
        /\ BalancesUnchanged
        /\ (DepositAccountChecksPass /\ ~DepositAmountIs(0)) =>
               last.err = InvalidAccountOwner

\* A funded signer deposits to the address its key derives with a bump
\* below the canonical one.
C7_Witness ==
    /\ DepositShaped /\ DepositAccountChecksPass
    /\ DepositAmountIs(1)
    /\ last.pre[LastPayer.key] >= 1
    /\ owner[LastPayer.key] = SYSTEM_ID
    /\ \E b \in BumpSamples :
          /\ Derives(DepositKey, b, LastVault.key)
          /\ ~CanonicalBump(DepositKey, b)
    /\ last.err = InvalidAccountOwner

(***************************************************************************)
(* C8: a Withdraw whose adjacent signature-verification instruction        *)
(* reports a number of signatures other than 1 is rejected and changes no  *)
(* balance, even if its first signature is a valid unexpired proof by the  *)
(* vault's owner naming the payer; the error is InvalidInstructionData     *)
(* (for a request that passes the account and payload checks).             *)
(***************************************************************************)
C8_SignatureCountRejected ==
    (IsWithdraw /\ last.ix.program = SECP256R1 /\ last.ix.num_signatures # 1) =>
        /\ ~Succeeded
        /\ BalancesUnchanged
        /\ WithdrawShaped => last.err = InvalidInstructionData

\* Two or more signatures, the first of them a proof that would be
\* accepted alone.
C8_Witness ==
    /\ WithdrawShaped
    /\ last.ix.program = SECP256R1
    /\ last.ix.num_signatures = MaxSigs
    /\ ProofDerivesVault
    /\ LastVault.key # LastPayer.key
    /\ ProofNames(LastPayer.key)
    /\ \E e \in ExpirySamples : ProofExpiresAt(e) /\ now <= e
    /\ last.err = InvalidInstructionData

(***************************************************************************)
(* C9: the expiry boundary is inclusive.  With every other condition of a  *)
(* Withdraw satisfied, it succeeds for every now <= expiry and is          *)
(* rejected with InvalidInstructionData for every now > expiry, expiry     *)
(* being the signed little-endian value of message bytes 32..40.           *)
(***************************************************************************)
C9_ExpiryInclusive ==
    (WithdrawShaped /\ OneProof /\ ProofDerivesVault
        /\ ProofNames(LastPayer.key)) =>
        \A e \in ExpirySamples :
            ProofExpiresAt(e) =>
                IF now <= e
                THEN Succeeded
                ELSE last.err = InvalidInstructionData /\ BalancesUnchanged

\* Accepted at now = expiry, after the clock has advanced.
C9_Witness ==
    /\ WithdrawShaped /\ OneProof /\ ProofDerivesVault
    /\ ProofNames(LastPayer.key)
    /\ now = MaxNow
    /\ ProofExpiresAt(now)
    /\ Succeeded
    /\ lamports[LastVault.key] = 0

\* Rejected at now = expiry + 1.
C9_RejectedOneSecondLate ==
    /\ WithdrawShaped /\ OneProof /\ ProofDerivesVault
    /\ ProofNames(LastPayer.key)
    /\ ProofExpiresAt(now - 1)
    /\ last.err = InvalidInstructionData

(***************************************************************************)
(* C10: payer binding.  A Withdraw whose payer account's key differs from  *)
(* the 32-byte payer field of the verified message is rejected (with       *)
(* InvalidAccountOwner, the request passing the earlier checks) and        *)
(* changes no balance; and whatever a successful Withdraw credits, it      *)
(* credits to the account the proof names.                                 *)
(***************************************************************************)
C10_PayerBinding ==
    /\ (IsWithdraw /\ Len(last.accounts) = 4
            /\ last.ix.program = SECP256R1 /\ last.ix.num_signatures >= 1
            /\ Len(last.ix.message.head) = 1
            /\ last.ix.message.head[1] # LastPayer.key) =>
        /\ ~Succeeded
        /\ BalancesUnchanged
        /\ (WithdrawShaped /\ OneProof) => last.err = InvalidAccountOwner
    /\ (IsWithdraw /\ Succeeded) =>
        \A a \in Accounts : lamports[a] > last.pre[a] => ProofNames(a)

\* A proof by the vault's owner for Wallet1, unexpired, submitted with
\* Wallet2 as the payer.
C10_Witness ==
    /\ WithdrawShaped /\ OneProof /\ ProofDerivesVault
    /\ LastVault.key \in VaultAddresses
    /\ ProofNames(Wallet1)
    /\ LastPayer.key = Wallet2
    /\ \E e \in ExpirySamples : ProofExpiresAt(e) /\ now <= e
    /\ last.err = InvalidAccountOwner

(***************************************************************************)
(* C11: round trip.  A successful Deposit by payer P (to a vault that was  *)
(* empty, or the Deposit had failed) followed, with no other successful    *)
(* instruction in between, by a successful Withdraw from that vault whose  *)
(* proof names P returns P's balance to its value before the Deposit and   *)
(* the vault to 0; the same Deposit, submitted again, is then accepted.    *)
(***************************************************************************)
RoundTripClosed ==
    /\ IsWithdraw /\ Succeeded
    /\ prevDeposit.some
    /\ LastVault.key = prevDeposit.vault
    /\ LastPayer.key = prevDeposit.payer
    /\ ProofNames(prevDeposit.payer)

C11_RoundTrip ==
    RoundTripClosed =>
        /\ lamports[prevDeposit.payer] = prevDeposit.balance
        /\ lamports[prevDeposit.vault] = 0
        /\ DepositHandler(prevDeposit.data,
                          <<Info(prevDeposit.payer, TRUE),
                            Info(prevDeposit.vault, FALSE),
                            SystemProgramInfo>>).err = Ok

\* Wallet1 deposits MaxAmount of its InitLamports and gets them back.
C11_Witness ==
    /\ RoundTripClosed
    /\ prevDeposit.payer = Wallet1
    /\ prevDeposit.balance = InitLamports
    /\ DepositInstructionDataTryFrom(prevDeposit.data).amount = MaxAmount
    /\ last.pre[Wallet1] = InitLamports - MaxAmount
    /\ lamports[Wallet1] = InitLamports

(***************************************************************************)
(* C12: the outcome of a Withdraw (success or failure, and the error) is   *)
(* the same whether or not its payer account signed the transaction: a     *)
(* Withdraw has the same result as the Withdraw that differs from it only  *)
(* in the signer flag of the payer account, applied to the same ledger.    *)
(* And a Deposit whose payer is not a signer fails with                    *)
(* InvalidAccountOwner.                                                    *)
(* Violated: the account in the payer position may also be the account in  *)
(* the vault position, and the transfer accepts a vault-position account   *)
(* that signed the transaction in place of the derived address (see C1).   *)
(***************************************************************************)
\* The same accounts, the account `key` having signed or not signed instead.
FlipSigner(accounts, key) ==
    [i \in 1..Len(accounts) |->
        IF accounts[i].key = key
        THEN [accounts[i] EXCEPT !.is_signer = ~@]
        ELSE accounts[i]]

SameOutcomeEitherWay(in) ==
    WithdrawHandler(in[1], in[2], in[3]).err =
        WithdrawHandler(in[1], FlipSigner(in[2], in[2][1].key), in[3]).err

\* Stated of the Withdraw that has just executed and left the ledger as it
\* was, so that the other Withdraw applies to the ledger it applied to.
C12_PayerSignerIrrelevant ==
    /\ (IsWithdraw /\ BalancesUnchanged /\ Len(last.accounts) >= 1
            /\ CanSign(last.accounts[1].key)) =>
        SameOutcomeEitherWay(<<last.data, last.accounts, last.ix>>)
    /\ (IsDeposit /\ Len(last.accounts) = 3 /\ ~LastPayer.is_signer) =>
        last.err = InvalidAccountOwner

\* What holds (for reference): the payer's signature is irrelevant whenever
\* the payer account is not also the account in the vault position.
C12_DistinctPayerSignerIrrelevant ==
    /\ Idle =>
        \A in \in WithdrawInputs :
            (CanSign(in[2][1].key) /\ in[2][1].key # in[2][2].key) =>
                SameOutcomeEitherWay(in)
    /\ (IsDeposit /\ Len(last.accounts) = 3 /\ ~LastPayer.is_signer) =>
        last.err = InvalidAccountOwner

(***************************************************************************)
(* C13: fail-closed.  Every failing Deposit or Withdraw is detected before *)
(* the transfer is invoked and leaves every balance as it was.  (Stated    *)
(* of the failures the claim lists: those the transfer itself raises for   *)
(* lack of funds are left aside.)                                          *)
(* Violated: a Withdraw whose signer and bump do not derive the vault      *)
(* account is not detected by the handler (see C14); it is the invoked     *)
(* transfer that fails.  No balance changes.                               *)
(***************************************************************************)
\* The handler reached its transfer: these results are the transfer's own.
TransferInvoked ==
    last.err \in {Ok, BadSeeds, PrivilegeEscalation, InsufficientFunds,
                  ExternalAccountLamportSpend}

C13_FailuresDetectedBeforeTransfer ==
    ((IsDeposit \/ IsWithdraw) /\ ~Succeeded
            /\ last.err \notin {InsufficientFunds, ExternalAccountLamportSpend}) =>
        /\ ~TransferInvoked
        /\ BalancesUnchanged

\* What holds (for reference): no failing instruction changes a balance.
C13_FailuresChangeNothing ==
    ((IsDeposit \/ IsWithdraw) /\ ~Succeeded) => BalancesUnchanged

(***************************************************************************)
(* C14: a Withdraw (well formed, on a funded vault, with one unexpired     *)
(* proof naming the payer) whose proof's signer and payload's bump do not  *)
(* derive the supplied vault account fails with InvalidAccountOwner,       *)
(* before the transfer is invoked.                                         *)
(* Violated: the handler does not compare the derived address with the     *)
(* vault account; the seeds go to the transfer, which fails with a         *)
(* privilege or seeds error, or succeeds when the vault account signed.    *)
(***************************************************************************)
C14_DerivationMismatchRejected ==
    (WithdrawShaped /\ OneProof /\ ProofNames(LastPayer.key)
            /\ LastVault.key \in VaultAddresses
            /\ (\E e \in ExpirySamples : ProofExpiresAt(e) /\ now <= e)
            /\ ~ProofDerivesVault) =>
        /\ last.err = InvalidAccountOwner
        /\ ~TransferInvoked

\* What holds (for reference): for a vault account that did not sign, the
\* mismatch is rejected by the transfer and no balance changes.
C14_DerivationMismatchFailsInTransfer ==
    (WithdrawShaped /\ OneProof /\ ProofNames(LastPayer.key)
            /\ (\E e \in ExpirySamples : ProofExpiresAt(e) /\ now <= e)
            /\ ~ProofDerivesVault /\ ~LastVault.is_signer) =>
        /\ last.err \in {PrivilegeEscalation, BadSeeds}
        /\ BalancesUnchanged

(***************************************************************************)
(* C15: the proof is never consumed.  A Withdraw that succeeded and is     *)
(* submitted again later (same payload, accounts and proof) succeeds       *)
(* again whenever now <= expiry and the vault balance is positive, and     *)
(* drains the vault for a payer other than the vault; submitted again      *)
(* while the vault balance is zero it fails with InvalidAccountData, the   *)
(* error of the empty vault.                                               *)
(***************************************************************************)
\* The Withdraw that has just executed is the most recent successful
\* Withdraw before it, submitted again.
Resubmitted ==
    /\ IsWithdraw
    /\ acceptedProof.some
    /\ last.data = acceptedProof.data
    /\ last.accounts = acceptedProof.accounts
    /\ last.ix = acceptedProof.ix

C15_ProofNotConsumed ==
    Resubmitted =>
        IF last.pre[LastVault.key] = 0
        THEN last.err = InvalidAccountData
        ELSE (\E e \in ExpirySamples : ProofExpiresAt(e) /\ now <= e) =>
                /\ Succeeded
                /\ LastPayer.key # LastVault.key => lamports[LastVault.key] = 0

\* The proof is accepted a second time after a second Deposit of MaxAmount,
\* which it drains.
C15_Witness ==
    /\ Resubmitted
    /\ Succeeded
    /\ LastPayer.key \in Wallets
    /\ last.pre[LastVault.key] = MaxAmount
    /\ lamports[LastVault.key] = 0

\* The resubmission with no Deposit in between: the vault is empty.
C15_ResubmittedOnEmptyVault ==
    /\ Resubmitted
    /\ last.pre[LastVault.key] = 0
    /\ last.err = InvalidAccountData

(***************************************************************************)
(* C16: a Withdraw (well formed, on a system-owned vault account with a    *)
(* positive balance) whose single verified message is not 40 bytes long    *)
(* is rejected with InvalidInstructionData, whatever the length (the       *)
(* message's first 32 bytes, when it has them, naming the payer).          *)
(* Violated: a message shorter than 32 bytes makes split_at(32) panic;     *)
(* the program aborts instead of returning InvalidInstructionData.         *)
(***************************************************************************)
MalformedMessage ==
    /\ WithdrawShaped /\ OneProof
    /\ MessageLen(last.ix.message) # PUBKEY_BYTES + U64_SIZE
    /\ Len(last.ix.message.head) = 1 => ProofNames(LastPayer.key)

C16_MalformedMessageRejected ==
    MalformedMessage => last.err = InvalidInstructionData

\* What holds (for reference): the message is rejected and no balance
\* changes; the error is InvalidInstructionData from 32 bytes on, and a
\* panic below.
C16_MalformedMessageRejectedAsCoded ==
    MalformedMessage =>
        /\ BalancesUnchanged
        /\ last.err = IF MessageLen(last.ix.message) < PUBKEY_BYTES
                      THEN Panic
                      ELSE InvalidInstructionData

(***************************************************************************)
(* C17 (as claimed): the payload is validated before the accounts: a       *)
(* Deposit whose payload is not 41 bytes long or spells the amount 0, and  *)
(* a Withdraw whose payload is not 1 byte long, fail with                  *)
(* InvalidInstructionData, whatever their accounts.                        *)
(***************************************************************************)
MalformedPayload ==
    \/ /\ IsDeposit
       /\ \/ ByteLen(last.data) # SECP256R1_COMPRESSED_PUBKEY_LENGTH + U64_SIZE
          \/ DepositAmountIs(0)
    \/ /\ IsWithdraw
       /\ Len(last.data) # 1

\* The account set the handler is passed is not acceptable to it.
InvalidAccounts ==
    IF IsDeposit
    THEN ~DepositAccountChecksPass
    ELSE \/ Len(last.accounts) # 4
         \/ owner[LastVault.key] # SYSTEM_ID
         \/ last.pre[LastVault.key] = 0

C17_PayloadValidatedFirst ==
    MalformedPayload => last.err = InvalidInstructionData

(***************************************************************************)
(* C17 (amended): the accounts are validated before the payload: a Deposit *)
(* or Withdraw with a malformed payload and also invalid accounts fails    *)
(* with the account error (NotEnoughAccountKeys, InvalidAccountOwner or    *)
(* InvalidAccountData), and with InvalidInstructionData only when its      *)
(* accounts are valid.                                                     *)
(***************************************************************************)
C17_AccountsValidatedFirst ==
    MalformedPayload =>
        IF InvalidAccounts
        THEN last.err \in {NotEnoughAccountKeys, InvalidAccountOwner,
                           InvalidAccountData}
        ELSE last.err = InvalidInstructionData

\* A Deposit of amount 0 whose payer did not sign.
C17_Witness ==
    /\ DepositShaped
    /\ DepositAmountIs(0)
    /\ ~LastPayer.is_signer
    /\ last.err = InvalidAccountOwner

\* A Withdraw with an empty payload on an empty vault.
C17_WithdrawWitness ==
    /\ IsWithdraw
    /\ last.data = <<>>
    /\ Len(last.accounts) = 4
    /\ last.pre[LastVault.key] = 0
    /\ last.err = InvalidAccountData

(***************************************************************************)
(* C18 (as claimed): between instructions, each vault's balance is either  *)
(* 0 or exactly the amount of the most recent successful Deposit to that   *)
(* vault.                                                                  *)
(***************************************************************************)
C18_VaultHoldsLastDeposit ==
    Idle =>
        \A v \in VaultAddresses :
            lamports[v] = 0 \/ lamports[v] = deposited[v].amount

(***************************************************************************)
(* C18 (amended): between instructions, the balance of each vault that no  *)
(* successful Withdraw from another account has credited as its payer      *)
(* since the most recent successful Deposit to it (or ever, if there was   *)
(* none) is either 0 or exactly the amount of that Deposit.                *)
(***************************************************************************)
C18_UncreditedVaultHoldsLastDeposit ==
    Idle =>
        \A v \in VaultAddresses :
            ~deposited[v].credited =>
                lamports[v] = 0 \/ lamports[v] = deposited[v].amount

\* One vault holds the MaxAmount deposited to it; another was deposited to
\* and drained.
C18_Witness ==
    /\ Idle
    /\ lamports[Vault1] = MaxAmount
    /\ deposited[Vault1] = [amount |-> MaxAmount, credited |-> FALSE]
    /\ \E u \in VaultAddresses \ {Vault1} :
        /\ deposited[u].amount > 0
        /\ ~deposited[u].credited
        /\ lamports[u] = 0

(***************************************************************************)
(* C19 (as claimed): each successful Deposit or Withdraw changes the       *)
(* balance of the vault passed to it, and the balance of no account other  *)
(* than that vault and the payer passed to it.  (Stated of the vaults at   *)
(* vault addresses.)                                                       *)
(***************************************************************************)
OthersUntouched ==
    \A a \in Accounts \ {LastPayer.key, LastVault.key} :
        lamports[a] = last.pre[a]

C19_VaultChangedOthersUntouched ==
    ((IsDeposit \/ IsWithdraw) /\ Succeeded
            /\ LastVault.key \in VaultAddresses) =>
        /\ lamports[LastVault.key] # last.pre[LastVault.key]
        /\ OthersUntouched

(***************************************************************************)
(* C19 (amended): each successful Deposit or Withdraw changes the balance  *)
(* of no account other than the vault and the payer passed to it; it       *)
(* changes the vault's balance, by the one transfer, unless the payer      *)
(* passed to it is the vault account itself, and then no balance changes.  *)
(***************************************************************************)
C19_FrameOfSuccess ==
    ((IsDeposit \/ IsWithdraw) /\ Succeeded) =>
        /\ OthersUntouched
        /\ IF LastPayer.key # LastVault.key
           THEN /\ lamports[LastVault.key] # last.pre[LastVault.key]
                /\ lamports[LastPayer.key] # last.pre[LastPayer.key]
           ELSE BalancesUnchanged

\* A Withdraw to Wallet2 while Wallet1 and another vault hold balances.
C19_Witness ==
    /\ IsWithdraw /\ Succeeded
    /\ LastVault.key \in VaultAddresses
    /\ LastPayer.key = Wallet2
    /\ lamports[LastVault.key] # last.pre[LastVault.key]
    /\ last.pre[Wallet1] > 0
    /\ \E u \in VaultAddresses \ {LastVault.key} :
        last.pre[u] > 0 /\ lamports[u] = last.pre[u]

(***************************************************************************)
(* C20: conservation.  Every instruction, successful or failing, leaves    *)
(* the sum of all balances as it was, so the sum is the initial one in     *)
(* every reachable state; every balance stays within 0 and that sum, far   *)
(* inside the unsigned 64-bit range; and a Deposit (three accounts, a      *)
(* 41-byte payload) whose amount exceeds the payer's balance fails,        *)
(* changes no balance and leaves an empty vault empty.                     *)
(***************************************************************************)
RECURSIVE SumOver(_, _)
SumOver(balances, accounts) ==
    IF accounts = {} THEN 0
    ELSE LET a == CHOOSE x \in accounts : TRUE
         IN balances[a] + SumOver(balances, accounts \ {a})

InitialSupply == Cardinality(Wallets \cup {Foreign}) * InitLamports

C20_Conservation ==
    /\ SumOver(lamports, Accounts) = SumOver(last.pre, Accounts)
    /\ SumOver(lamports, Accounts) = InitialSupply
    /\ \A a \in Accounts : lamports[a] >= 0 /\ lamports[a] <= InitialSupply
    /\ (DepositShaped
            /\ \E v \in 0..MaxAmount :
                DepositAmountIs(v) /\ v > last.pre[LastPayer.key]) =>
        /\ ~Succeeded
        /\ BalancesUnchanged
        /\ last.pre[LastVault.key] = 0 => lamports[LastVault.key] = 0

\* A Deposit of MaxAmount by a signer that holds less, to the empty
\* canonical vault of its key, while a Withdraw has left a wallet with more
\* than its initial balance.
C20_Witness ==
    /\ DepositShaped
    /\ DepositAccountChecksPass
    /\ CanonicalVault(DepositKey, LastVault.key)
    /\ DepositAmountIs(MaxAmount)
    /\ last.pre[LastPayer.key] < MaxAmount
    /\ last.err = InsufficientFunds
    /\ lamports[LastVault.key] = 0
    /\ \E a \in Wallets : lamports[a] > InitLamports

=============================================================================
